---- MODULE Spec2Model ----
(***************************************************************************)
(* A model of lbl_scraper.py: the four HTML extractors, the refresh cycle  *)
(* that fills the process-wide cache league_data, the background refresh   *)
(* thread and the HTTP handlers that read the cache.                       *)
(*                                                                         *)
(* Text is modelled as a sequence of one-character strings, so that the    *)
(* code's parsing (int(), split, strip, the regular expressions) and its   *)
(* formatting (the f-string keys) are computed and not assumed.            *)
(***************************************************************************)
EXTENDS Integers, Sequences, FiniteSets, TLC

\* Python's None where a text is expected: no text is equal to it.
None == <<"None">>

\* league_data['last_updated'] is None before the first successful cycle.
NoTime == 0

(***************************************************************************)
(* Characters and the str methods the code calls.                          *)
(***************************************************************************)
DigitChars == <<"0", "1", "2", "3", "4", "5", "6", "7", "8", "9">>

UpperChars ==
  {"A", "B", "C", "D", "E", "F", "G", "H", "I", "J", "K", "L", "M",
   "N", "O", "P", "Q", "R", "S", "T", "U", "V", "W", "X", "Y", "Z"}

LowerChars ==
  {"a", "b", "c", "d", "e", "f", "g", "h", "i", "j", "k", "l", "m",
   "n", "o", "p", "q", "r", "s", "t", "u", "v", "w", "x", "y", "z"}

IsDigit(c) == \E i \in 1..10 : DigitChars[i] = c

DigitVal(c) == (CHOOSE i \in 1..10 : DigitChars[i] = c) - 1

IsUpper(c) == c \in UpperChars

IsLower(c) == c \in LowerChars

IsAlpha(c) == IsUpper(c) \/ IsLower(c)

IsSpace(c) == c \in {" ", "\t", "\n"}

\* s[i:] of Python, with 1-based i.
From(s, i) == SubSeq(s, i, Len(s))

\* The end (exclusive) of the longest run of characters of a class that
\* starts at position i; i itself when s[i] is not of the class.
RECURSIVE DigitRunEnd(_, _)
DigitRunEnd(s, i) ==
  IF i <= Len(s) /\ IsDigit(s[i]) THEN DigitRunEnd(s, i + 1) ELSE i

RECURSIVE WordRunEnd(_, _)
WordRunEnd(s, i) ==
  IF i <= Len(s) /\ (IsAlpha(s[i]) \/ IsSpace(s[i]))
  THEN WordRunEnd(s, i + 1) ELSE i

\* str.strip(): leading and trailing whitespace removed.
RECURSIVE LStrip(_)
LStrip(s) == IF s # <<>> /\ IsSpace(Head(s)) THEN LStrip(Tail(s)) ELSE s

RECURSIVE RStrip(_)
RStrip(s) ==
  IF s # <<>> /\ IsSpace(s[Len(s)]) THEN RStrip(SubSeq(s, 1, Len(s) - 1)) ELSE s

Strip(s) == RStrip(LStrip(s))

\* str.strip('[]'): leading and trailing brackets removed.
RECURSIVE LStripBrackets(_)
LStripBrackets(s) ==
  IF s # <<>> /\ Head(s) \in {"[", "]"} THEN LStripBrackets(Tail(s)) ELSE s

RECURSIVE RStripBrackets(_)
RStripBrackets(s) ==
  IF s # <<>> /\ s[Len(s)] \in {"[", "]"}
  THEN RStripBrackets(SubSeq(s, 1, Len(s) - 1)) ELSE s

StripBrackets(s) == RStripBrackets(LStripBrackets(s))

\* sub in s
StartsAt(s, i, sub) ==
  /\ i + Len(sub) - 1 <= Len(s)
  /\ \A k \in 1..Len(sub) : s[i + k - 1] = sub[k]

Contains(s, sub) == \E i \in 1..(Len(s) + 1) : StartsAt(s, i, sub)

\* s.replace(c, ''), for a one-character c.
RECURSIVE RemoveChar(_, _)
RemoveChar(s, c) ==
  IF s = <<>> THEN <<>>
  ELSE IF Head(s) = c THEN RemoveChar(Tail(s), c)
  ELSE <<Head(s)>> \o RemoveChar(Tail(s), c)

\* s.split(c), for a one-character c: always at least one part.
RECURSIVE Split(_, _)
Split(s, c) ==
  IF \A i \in 1..Len(s) : s[i] # c THEN <<s>>
  ELSE LET i == CHOOSE j \in 1..Len(s) :
                  s[j] = c /\ \A k \in 1..(j - 1) : s[k] # c
       IN  <<SubSeq(s, 1, i - 1)>> \o Split(From(s, i + 1), c)

\* The value of a run of decimal digits.
RECURSIVE NatOf(_)
NatOf(s) ==
  IF s = <<>> THEN 0 ELSE NatOf(SubSeq(s, 1, Len(s) - 1)) * 10 + DigitVal(s[Len(s)])

\* int(s): surrounding whitespace and one sign are accepted, and single
\* underscores between digits; anything else raises ValueError.
IntBody(s) ==
  LET t == Strip(s)
  IN  IF t # <<>> /\ Head(t) \in {"+", "-"} THEN Tail(t) ELSE t

IntOk(s) ==
  LET b == IntBody(s)
  IN  /\ b # <<>>
      /\ \A i \in 1..Len(b) : IsDigit(b[i]) \/ b[i] = "_"
      /\ IsDigit(b[1]) /\ IsDigit(b[Len(b)])
      /\ \A i \in 1..(Len(b) - 1) : ~(b[i] = "_" /\ b[i + 1] = "_")

IntVal(s) ==
  LET t == Strip(s)
      n == NatOf(RemoveChar(IntBody(s), "_"))
  IN  IF t # <<>> /\ Head(t) = "-" THEN 0 - n ELSE n

\* str(n) for a natural number n.
RECURSIVE StrOf(_)
StrOf(n) ==
  IF n < 10 THEN <<DigitChars[n + 1]>>
  ELSE StrOf(n \div 10) \o <<DigitChars[(n % 10) + 1]>>

(***************************************************************************)
(* The regular expressions of the code, each matched as re does: the       *)
(* leftmost start, greedy repetitions.                                     *)
(***************************************************************************)

\* re.match(r'[A-Za-z]{3}\.?\s?\d{1,2}', s) when spaced, and
\* re.match(r'[A-Za-z]{3}\.?\d{1,2}', s) when not: three letters, an
\* optional dot, (an optional whitespace,) at least one digit.
DateMatch(s, spaced) ==
  /\ Len(s) >= 4
  /\ \A i \in 1..3 : IsAlpha(s[i])
  /\ LET p == IF s[4] = "." THEN 5 ELSE 4
         q == IF spaced /\ p <= Len(s) /\ IsSpace(s[p]) THEN p + 1 ELSE p
     IN  q <= Len(s) /\ IsDigit(s[q])

\* r'/(\d{4})_(\d+)_(\d+)\.aspx' matched at position i of url: the three
\* groups, or <<>> when there is no match at i.  The second and third
\* groups are forced to be whole digit runs by the characters after them.
GameIdMatchAt(url, i) ==
  IF /\ i + 5 <= Len(url)
     /\ url[i] = "/"
     /\ \A k \in 1..4 : IsDigit(url[i + k])
     /\ url[i + 5] = "_"
  THEN LET j == DigitRunEnd(url, i + 6)
           k == DigitRunEnd(url, j + 1)
       IN  IF /\ j > i + 6
              /\ j <= Len(url) /\ url[j] = "_"
              /\ k > j + 1
              /\ StartsAt(url, k, <<".", "a", "s", "p", "x">>)
           THEN <<SubSeq(url, i + 1, i + 4), SubSeq(url, i + 6, j - 1),
                  SubSeq(url, j + 1, k - 1)>>
           ELSE <<>>
  ELSE <<>>

\* A derivation that takes the year from the path segment before the file
\* name instead of the file name's first group.
ParseGameIdYear(url) ==
  IF url = None \/ url = <<>> THEN None
  ELSE IF \A i \in 1..Len(url) : GameIdMatchAt(url, i) = <<>> THEN None
  ELSE LET i == CHOOSE j \in 1..Len(url) :
                  /\ GameIdMatchAt(url, j) # <<>>
                  /\ \A k \in 1..(j - 1) : GameIdMatchAt(url, k) = <<>>
           g == GameIdMatchAt(url, i)
           year == IF i > 4 THEN SubSeq(url, i - 4, i - 1) ELSE g[1]
       IN  year \o <<"_">> \o g[2] \o <<"_">> \o g[3]

\* def parse_game_id_from_url(url)
parse_game_id_from_url(url) ==
  IF url = None \/ url = <<>> THEN None
  ELSE IF \A i \in 1..Len(url) : GameIdMatchAt(url, i) = <<>> THEN None
  ELSE LET i == CHOOSE j \in 1..Len(url) :
                  /\ GameIdMatchAt(url, j) # <<>>
                  /\ \A k \in 1..(j - 1) : GameIdMatchAt(url, k) = <<>>
           g == GameIdMatchAt(url, i)
       IN  g[1] \o <<"_">> \o g[2] \o <<"_">> \o g[3]

\* r'(\d+)\s+([A-Za-z\s]+?)\s+(\d+)-(\d+)' matched at position i of a
\* line: <<rank, team, wins, losses>> as texts, or <<>>.  After the first
\* digit run come at least three characters of [A-Za-z\s], the first and
\* the last of them whitespace, up to the next digit run; that run ends at
\* a '-' which a last digit run follows.
StandingLineMatchAt(line, i) ==
  LET a == DigitRunEnd(line, i)
      d == WordRunEnd(line, a)
      e == DigitRunEnd(line, d)
      f == DigitRunEnd(line, e + 1)
  IN  IF /\ a > i
         /\ d >= a + 3
         /\ IsSpace(line[a]) /\ IsSpace(line[d - 1])
         /\ e > d
         /\ e <= Len(line) /\ line[e] = "-"
         /\ f > e + 1
      THEN <<SubSeq(line, i, a - 1), SubSeq(line, a, d - 1),
             SubSeq(line, d, e - 1), SubSeq(line, e + 1, f - 1)>>
      ELSE <<>>

\* re.search of that expression in a line: the leftmost match, or <<>>.
StandingLineSearch(line) ==
  IF \A i \in 1..Len(line) : StandingLineMatchAt(line, i) = <<>> THEN <<>>
  ELSE StandingLineMatchAt(line,
         CHOOSE j \in 1..Len(line) :
           /\ StandingLineMatchAt(line, j) # <<>>
           /\ \A k \in 1..(j - 1) : StandingLineMatchAt(line, k) = <<>>)

\* re.findall(r'\d+\.?\d*', text)[-1]: the numeric tokens are scanned from
\* the left, each a digit run, an optional dot and a digit run; the last
\* token, or <<>> when the text holds no digit.
RECURSIVE LastNumber(_, _, _)
LastNumber(text, i, last) ==
  IF i > Len(text) THEN last
  ELSE IF IsDigit(text[i])
       THEN LET a == DigitRunEnd(text, i)
                b == IF a <= Len(text) /\ text[a] = "."
                     THEN DigitRunEnd(text, a + 1) ELSE a
            IN  LastNumber(text, b, SubSeq(text, i, b - 1))
       ELSE LastNumber(text, i + 1, last)

\* float(token) of such a token, as <<whole part, fraction digits>> with
\* the fraction's trailing zeros dropped: 12. and 12.0 and 12 are equal.
RECURSIVE DropTrailingZeros(_)
DropTrailingZeros(s) ==
  IF s # <<>> /\ s[Len(s)] = "0"
  THEN DropTrailingZeros(SubSeq(s, 1, Len(s) - 1)) ELSE s

FloatOf(token) ==
  LET parts == Split(token, ".")
  IN  <<NatOf(parts[1]),
        IF Len(parts) > 1 THEN DropTrailingZeros(parts[2]) ELSE <<>> >>

\* re.compile(r'[A-Z][a-z]+') found in a text.
HasCapitalisedWord(text) ==
  \E i \in 1..(Len(text) - 1) : IsUpper(text[i]) /\ IsLower(text[i + 1])

(***************************************************************************)
(* Parsed documents.  A document (BeautifulSoup) is                        *)
(*   [tables, lines, stats]:                                               *)
(*   tables  find_all('table'): each table the sequence of its rows (tr),  *)
(*           a row [cols, round]: cols its cells (td) and round the text   *)
(*           node find_previous(text=r'Round \d+') yields for it, or None; *)
(*           a cell [text, a, img]: its text, its anchors [text, href] and *)
(*           its images [alt], href and alt being what .get(name, '')      *)
(*           returns;                                                      *)
(*   lines   get_text().split('\n');                                       *)
(*   stats   for each category, <<>> when no text node matches it, else    *)
(*           <<anchors>>: the anchors below the matching node's parent,    *)
(*           an anchor [text, href, row], row being <<>> when the anchor   *)
(*           has no enclosing tr or div and else <<its text nodes>>.       *)
(***************************************************************************)

\* The result of a call that may raise: a value, or an exception.
Return(v) == [ok |-> TRUE, val |-> v]

Raise == [ok |-> FALSE, val |-> <<>>]

\* A slice that keeps the whole list.
NoTruncate(seq, n) == seq

\* seq[:n]
Truncate(seq, n) == SubSeq(seq, 1, IF Len(seq) < n THEN Len(seq) ELSE n)

\* BASE_URL = 'https://www.asia-basket.com'
BASE_URL ==
  <<"h", "t", "t", "p", "s", ":", "/", "/", "w", "w", "w", ".", "a", "s",
    "i", "a", "-", "b", "a", "s", "k", "e", "t", ".", "c", "o", "m">>

TBD == <<"T", "B", "D">>

Unknown == <<"U", "n", "k", "n", "o", "w", "n">>

\* The list limits of the four extractors.
MaxStandings == 12

MaxResults == 30

MaxUpcoming == 15

MaxLeaders == 5

(***************************************************************************)
(* def scrape_standings(soup)                                              *)
(***************************************************************************)

\* One standings row that has at least two cells (lines 102-118): the
\* entry, or the ValueError of int().
StandingOfRow(cols, idx) ==
  LET team_name ==
        IF cols[1].a # <<>> THEN Strip(cols[1].a[1].text)
        ELSE IF cols[2].a # <<>> THEN Strip(cols[2].a[1].text)
        ELSE Strip(cols[2].text)
      record_text == IF Len(cols) > 2 THEN Strip(cols[Len(cols)].text) ELSE <<>>
      parts == Split(record_text, "-")
  IN  IF Contains(record_text, <<"-">>)
      THEN IF IntOk(parts[1]) /\ IntOk(parts[2])
           THEN Return([rank |-> idx, team |-> team_name,
                        wins |-> IntVal(parts[1]), losses |-> IntVal(parts[2])])
           ELSE Raise
      ELSE Return([rank |-> idx, team |-> team_name, wins |-> 0, losses |-> 0])

\* A loop that numbers only the rows it keeps.
RECURSIVE StandingsOfRowsDense(_, _)
StandingsOfRowsDense(rows, idx) ==
  IF rows = <<>> THEN Return(<<>>)
  ELSE LET cols == Head(rows).cols
       IN  IF Len(cols) >= 2
           THEN LET one == StandingOfRow(cols, idx)
                    rest == StandingsOfRowsDense(Tail(rows), idx + 1)
                IN  IF one.ok /\ rest.ok
                    THEN Return(<<one.val>> \o rest.val) ELSE Raise
           ELSE StandingsOfRowsDense(Tail(rows), idx)

\* The loop of lines 99-118 over the data rows, idx counting every row.
RECURSIVE StandingsOfRows(_, _)
StandingsOfRows(rows, idx) ==
  IF rows = <<>> THEN Return(<<>>)
  ELSE LET cols == Head(rows).cols
       IN  IF Len(cols) >= 2
           THEN LET one == StandingOfRow(cols, idx)
                    rest == StandingsOfRows(Tail(rows), idx + 1)
                IN  IF one.ok /\ rest.ok
                    THEN Return(<<one.val>> \o rest.val) ELSE Raise
           ELSE StandingsOfRows(Tail(rows), idx + 1)

\* The fallback of lines 120-132 over the lines of the document's text.
RECURSIVE StandingsOfLines(_)
StandingsOfLines(lines) ==
  IF lines = <<>> THEN <<>>
  ELSE LET m == StandingLineSearch(Head(lines))
       IN  (IF m = <<>> THEN <<>>
            ELSE <<[rank |-> IntVal(m[1]), team |-> Strip(m[2]),
                    wins |-> IntVal(m[3]), losses |-> IntVal(m[4])]>>)
           \o StandingsOfLines(Tail(lines))

\* find_all('tr')[1:]
DataRows(table) == IF table = <<>> THEN <<>> ELSE Tail(table)

\* soup.find('table') is the first table of the document.  When there is
\* none, the search below the 'Standings' label (lines 90-94) finds none
\* either, find_next('table') looking in the same document.
scrape_standings(soup) ==
  LET fromTable ==
        IF soup.tables # <<>>
        THEN StandingsOfRows(DataRows(soup.tables[1]), 1)
        ELSE Return(<<>>)
  IN  IF ~fromTable.ok THEN Raise
      ELSE IF fromTable.val # <<>>
      THEN Return(Truncate(fromTable.val, MaxStandings))
      ELSE Return(Truncate(StandingsOfLines(soup.lines), MaxStandings))

(***************************************************************************)
(* def scrape_results(soup, schedule_soup)                                 *)
(***************************************************************************)

\* for table in find_all('table'): for row in table.find_all('tr')
RECURSIVE AllRows(_)
AllRows(tables) ==
  IF tables = <<>> THEN <<>> ELSE Head(tables) \o AllRows(Tail(tables))

\* The date test of lines 163 and 265: the expression, or one of two
\* literal markers.
IsGameDate(date_text, marker1, marker2) ==
  \/ DateMatch(date_text, TRUE)
  \/ Contains(date_text, marker1)
  \/ Contains(date_text, marker2)

\* date_text.replace(':', '').replace('.', '').strip()
CleanDate(date_text) == Strip(RemoveChar(RemoveChar(date_text, ":"), "."))

\* Lines 176-200 and 223-242: the entry of a row whose score cell holds a
\* link, <<>> when the link's text has no '-', or the ValueError of int().
ResultOfLink(score_link, date, home_team, away_team) ==
  LET score_text == Strip(score_link.text)
      box_score_url == score_link.href
      scores == Split(StripBrackets(score_text), "-")
  IN  IF Contains(score_text, <<"-">>)
      THEN IF IntOk(scores[1]) /\ IntOk(scores[2])
           THEN Return(<<[date |-> date,
                          homeTeam |-> home_team,
                          homeScore |-> IntVal(scores[1]),
                          awayTeam |-> away_team,
                          awayScore |-> IntVal(scores[2]),
                          gameId |-> parse_game_id_from_url(box_score_url),
                          boxScoreUrl |-> IF box_score_url # <<>>
                                          THEN BASE_URL \o box_score_url
                                          ELSE None]>>)
           ELSE Raise
      ELSE Return(<<>>)

\* One row of the schedule page (lines 157-202): the entries it adds, none
\* when a test fails or the try block catches an exception.
ResultsOfScheduleRow(row) ==
  LET cols == row.cols
      date_text == Strip(cols[1].text)
  IN  IF /\ Len(cols) >= 4
         /\ IsGameDate(date_text, <<"z", "i", "j">>, <<"y", "R", "M">>)
         /\ cols[2].img # <<>> /\ cols[4].img # <<>>
         /\ cols[3].a # <<>>
      THEN LET r == ResultOfLink(cols[3].a[1], CleanDate(date_text),
                                 Strip(cols[2].img[1].alt),
                                 Strip(cols[4].img[1].alt))
           IN  IF r.ok THEN r.val ELSE <<>>
      ELSE <<>>

\* One row of the league page in the fallback (lines 212-244).
ResultsOfLeagueRow(row) ==
  LET cols == row.cols
      date_text == Strip(cols[1].text)
  IN  IF /\ Len(cols) >= 4
         /\ DateMatch(date_text, FALSE)
         /\ cols[3].a # <<>>
      THEN LET r == ResultOfLink(cols[3].a[1], date_text,
                                 Strip(cols[2].text), Strip(cols[4].text))
           IN  IF r.ok THEN r.val ELSE <<>>
      ELSE <<>>

RECURSIVE ResultsOfScheduleRows(_)
ResultsOfScheduleRows(rows) ==
  IF rows = <<>> THEN <<>>
  ELSE ResultsOfScheduleRow(Head(rows)) \o ResultsOfScheduleRows(Tail(rows))

RECURSIVE ResultsOfLeagueRows(_)
ResultsOfLeagueRows(rows) ==
  IF rows = <<>> THEN <<>>
  ELSE ResultsOfLeagueRow(Head(rows)) \o ResultsOfLeagueRows(Tail(rows))

scrape_results(soup, schedule_soup) ==
  LET results == ResultsOfScheduleRows(AllRows(schedule_soup.tables))
  IN  IF results # <<>> THEN Truncate(results, MaxResults)
      ELSE Truncate(ResultsOfLeagueRows(AllRows(soup.tables)), MaxResults)

(***************************************************************************)
(* def scrape_upcoming(schedule_soup)                                      *)
(***************************************************************************)

\* One row of the schedule page (lines 259-300).
UpcomingOfRow(row) ==
  LET cols == row.cols
      date_text == Strip(cols[1].text)
  IN  IF /\ Len(cols) >= 4
         /\ IsGameDate(date_text, <<"y", "R", "M">>, <<"b", "i", "Q">>)
         /\ cols[2].img # <<>> /\ cols[4].img # <<>>
         /\ \/ cols[3].a = <<>>
            \/ Contains(cols[3].text,
                 <<"L", "a", "s", "t", " ", "1", "0", " ", "G", "a", "m", "e", "s">>)
      THEN <<[date |-> CleanDate(date_text),
              homeTeam |-> Strip(cols[2].img[1].alt),
              awayTeam |-> Strip(cols[4].img[1].alt),
              homeScore |-> None,
              awayScore |-> None,
              time |-> TBD,
              round |-> IF row.round # None THEN Strip(row.round) ELSE <<>>,
              venue |-> TBD]>>
      ELSE <<>>

RECURSIVE UpcomingOfRows(_)
UpcomingOfRows(rows) ==
  IF rows = <<>> THEN <<>>
  ELSE UpcomingOfRow(Head(rows)) \o UpcomingOfRows(Tail(rows))

\* key = f"{game['homeTeam']}-{game['awayTeam']}-{game['date']}"
UpcomingKey(game) ==
  game.homeTeam \o <<"-">> \o game.awayTeam \o <<"-">> \o game.date

\* The loop of lines 303-309: a game is kept unless its key is in seen.
RECURSIVE RemoveDuplicates(_, _)
RemoveDuplicates(upcoming, seen) ==
  IF upcoming = <<>> THEN <<>>
  ELSE LET game == Head(upcoming)
           key == UpcomingKey(game)
       IN  IF key \notin seen
           THEN <<game>> \o RemoveDuplicates(Tail(upcoming), seen \cup {key})
           ELSE RemoveDuplicates(Tail(upcoming), seen)

scrape_upcoming(schedule_soup) ==
  Truncate(RemoveDuplicates(UpcomingOfRows(AllRows(schedule_soup.tables)), {}),
           MaxUpcoming)

(***************************************************************************)
(* def scrape_stats(soup)                                                  *)
(***************************************************************************)
stat_categories == <<"ppg", "rpg", "apg", "spg", "bpg">>

\* row.get_text(): the row's text nodes joined.
RECURSIVE GetText(_)
GetText(nodes) ==
  IF nodes = <<>> THEN <<>> ELSE Head(nodes) \o GetText(Tail(nodes))

\* row.find(text=re.compile(r'[A-Z][a-z]+')): the first text node with a
\* capitalised word, as <<node>>, or <<>>.
RECURSIVE FindTeamElem(_)
FindTeamElem(nodes) ==
  IF nodes = <<>> THEN <<>>
  ELSE IF HasCapitalisedWord(Head(nodes)) THEN <<Head(nodes)>>
  ELSE FindTeamElem(Tail(nodes))

\* One player link (lines 336-355).
LeaderOfLink(link) ==
  IF link.row = <<>> THEN <<>>
  ELSE LET nodes == link.row[1]
           number == LastNumber(GetText(nodes), 1, <<>>)
           team_elem == FindTeamElem(nodes)
       IN  IF number = <<>> THEN <<>>
           ELSE <<[player |-> Strip(link.text),
                   team |-> IF team_elem # <<>> THEN Strip(team_elem[1])
                            ELSE Unknown,
                   value |-> FloatOf(number)]>>

RECURSIVE LeadersOfLinks(_)
LeadersOfLinks(links) ==
  IF links = <<>> THEN <<>>
  ELSE LeaderOfLink(Head(links)) \o LeadersOfLinks(Tail(links))

\* parent.find_all('a', href=re.compile(r'/player/'))
PlayerLinks(anchors) ==
  SelectSeq(anchors,
            LAMBDA a : Contains(a.href, <<"/", "p", "l", "a", "y", "e", "r", "/">>))

scrape_stats(soup) ==
  [cat \in {stat_categories[i] : i \in 1..Len(stat_categories)} |->
     IF soup.stats[cat] = <<>> THEN <<>>
     ELSE LeadersOfLinks(Truncate(PlayerLinks(soup.stats[cat][1]), MaxLeaders))]

(***************************************************************************)
(* The pages of the remote site.  A page is named by a description, from   *)
(* which the parsed document is built; the state holds descriptions.       *)
(*   league page    [rows, lines, links, cats]                             *)
(*   schedule page  [rows]                                                 *)
(* rows: row descriptions [k, n], k the kind of row and n a number that    *)
(* the texts of the row are made from; lines: line descriptions            *)
(* [k, n, w]; links: the kinds of the anchors of each statistics block;    *)
(* cats: how many of the five category labels the page shows.              *)
(***************************************************************************)
TextCell(t) == [text |-> t, a |-> <<>>, img |-> <<>>]

LinkCell(t, href) == [text |-> t, a |-> <<[text |-> t, href |-> href]>>, img |-> <<>>]

ImgCell(alt) == [text |-> <<>>, a |-> <<>>, img |-> <<[alt |-> alt]>>]

TeamNames ==
  <<<<"S", "a", "g">>, <<"R", "i", "y">>, <<"H", "o", "m">>, <<"B", "y", "b">>, <<"A", "n", "t">>>>

TeamName(n) == TeamNames[((n - 1) % Len(TeamNames)) + 1]

\* The box score address of game n: the site's format
\* /boxScores/Lebanon/2026/0209_2628_2682.aspx for n = 2682.
BoxScoreHref(n) ==
  <<"/", "b", "o", "x", "S", "c", "o", "r", "e", "s", "/", "L", "e", "b", "a", "n", "o", "n", "/", "2", "0", "2", "6", "/", "0", "2", "0", "9", "_", "2", "6", "2", "8", "_">> \o StrOf(n) \o <<".", "a", "s", "p", "x">>

\* Addresses with other shapes: a game page without ids, a box score
\* with a three-digit day part, one with a single id, no address.
OtherHref(n) ==
  CASE n = 0 -> <<>>
    [] n = 1 -> <<"/", "g", "a", "m", "e", "/", "2", "6", "2", "8">>
    [] n = 2 -> <<"/", "b", "o", "x", "S", "c", "o", "r", "e", "s", "/", "L", "e", "b", "a", "n", "o", "n", "/", "2", "0", "2", "6", "/", "2", "0", "9", "_", "2", "6", "2", "8", "_", "2", "6", "8", "2", ".", "a", "s", "p", "x">>
    [] n = 3 -> <<"/", "b", "o", "x", "S", "c", "o", "r", "e", "s", "/", "L", "e", "b", "a", "n", "o", "n", "/", "2", "0", "2", "6", "/", "0", "2", "0", "9", "_", "2", "6", "2", "8", ".", "a", "s", "p", "x">>
    [] OTHER -> <<"/", "b", "o", "x", "S", "c", "o", "r", "e", "s", "/", "L", "e", "b", "a", "n", "o", "n", "/", "2", "0", "2", "6", "/", "0", "2", "0", "9", "_", "2", "6", "2", "8", "_", "2", "6", "8", "2", ".", "h", "t", "m", "l">>

\* "Feb.<n>:" as the schedule page prints a date.
DateText(n) == <<"F", "e", "b", ".">> \o StrOf(n) \o <<":">>

RowKindsLeague == {"team", "pair", "short", "plain", "letters", "half", "game"}

\* A row of the first table of the league page.
LeagueRow(d) ==
  [round |-> None,
   cols |->
     CASE d.k = "team" ->
            <<TextCell(StrOf(d.n)), LinkCell(TeamName(d.n), <<"/", "t">>),
              TextCell(StrOf(d.n + 9) \o <<"-">> \o StrOf(d.n))>>
       [] d.k = "pair" ->
            <<TextCell(StrOf(d.n)), TextCell(<<" ">> \o TeamName(d.n) \o <<" ">>)>>
       [] d.k = "short" -> <<TextCell(StrOf(d.n))>>
       [] d.k = "plain" ->
            <<LinkCell(TeamName(d.n), <<"/", "t">>), TextCell(<<>>),
              TextCell(<<"n", "/", "a">>)>>
       [] d.k = "letters" ->
            <<TextCell(StrOf(d.n)), TextCell(TeamName(d.n)), TextCell(<<"W", "-", "L">>)>>
       [] d.k = "half" ->
            <<TextCell(StrOf(d.n)), TextCell(TeamName(d.n)),
              TextCell(StrOf(d.n) \o <<"-">>)>>
       [] OTHER ->
            <<TextCell(<<"F", "e", "b", ".">> \o StrOf(d.n)),
              TextCell(TeamName(d.n)),
              LinkCell(StrOf(70 + d.n) \o <<"-">> \o StrOf(60 + d.n), BoxScoreHref(d.n)),
              TextCell(TeamName(d.n + 1))>>]

\* A line of the league page's text: a standings line "<n> <team> <w>-<n>"
\* (the team name in two words when n is even), or another line.
LeagueLine(d) ==
  IF d.k = "entry"
  THEN StrOf(d.n) \o <<" ">>
       \o (IF d.n % 2 = 0 THEN <<"A", "l", " ">> ELSE <<>>) \o TeamName(d.n)
       \o <<" ", " ">> \o StrOf(d.w) \o <<"-">> \o StrOf(d.n)
  ELSE IF d.k = "glued"
  THEN StrOf(d.n) \o TeamName(d.n) \o <<" ">> \o StrOf(d.w) \o <<"-">> \o StrOf(d.n)
  ELSE <<"R", "o", "u", "n", "d", " ">> \o StrOf(d.n)

LinkKinds == {"player", "coach", "bare", "blank", "anon"}

\* An anchor of a statistics block.
StatLink(k, n) ==
  LET name == TeamName(n) \o <<" ">>
      value == StrOf(10 + n) \o <<".">> \o StrOf(n)
  IN  [text |-> name,
       href |-> IF k = "coach" THEN <<"/", "c", "o", "a", "c", "h", "/">> \o StrOf(n)
                ELSE <<"/", "p", "l", "a", "y", "e", "r", "/">> \o StrOf(n),
       row  |-> CASE k = "bare"  -> <<>>
                  [] k = "blank" -> << <<name, TeamName(n + 1)>> >>
                  [] k = "anon"  -> << <<StrOf(n), <<" ">>, value>> >>
                  [] OTHER       -> << <<StrOf(n), <<" ">>, name, TeamName(n + 1),
                                         <<" ">>, value>> >>]

LeagueDoc(page) ==
  [tables |-> IF page.rows = <<>> THEN <<>>
              ELSE << <<[round |-> None, cols |-> <<>>]>>
                      \o [i \in 1..Len(page.rows) |-> LeagueRow(page.rows[i])] >>,
   lines  |-> [i \in 1..Len(page.lines) |-> LeagueLine(page.lines[i])],
   stats  |-> [cat \in {stat_categories[i] : i \in 1..Len(stat_categories)} |->
                 IF \E i \in 1..page.cats : stat_categories[i] = cat
                 THEN << [i \in 1..Len(page.links) |-> StatLink(page.links[i], i)] >>
                 ELSE <<>>]]

RoundText(n) == <<" ", "R", "o", "u", "n", "d", " ">> \o StrOf(n)

\* A row of the schedule page: a played game (result, rematch, bracket,
\* noaddr), a played game whose score does not parse (letters, half), a row
\* whose link is not a score (versus), a game to come (fixture, later,
\* last10, hyphenhome, hyphenaway) or a row that is no game.
ScheduleRow(d) ==
  LET home == ImgCell(TeamName(d.n))
      away == ImgCell(<<" ">> \o TeamName(d.n + 1))
      score(t, href) == LinkCell(t, href)
      row(cols) == [round |-> IF d.n % 2 = 0 THEN RoundText(d.n) ELSE None,
                    cols |-> cols]
  IN  CASE d.k = "result" ->
             row(<<TextCell(DateText(d.n)), home,
                   score(StrOf(70 + d.n) \o <<"-">> \o StrOf(60 + d.n),
                         BoxScoreHref(d.n)), away>>)
        [] d.k = "rematch" ->
             row(<<TextCell(DateText(d.n + 1)), away,
                   score(StrOf(80 + d.n) \o <<"-">> \o StrOf(90 + d.n),
                         BoxScoreHref(d.n)), home>>)
        [] d.k = "bracket" ->
             row(<<TextCell(DateText(d.n)), home,
                   score(<<"[">> \o StrOf(d.n) \o <<"-">> \o StrOf(d.n + 1) \o <<"]", " ">>,
                         OtherHref(d.n)), away, TextCell(<<>>)>>)
        [] d.k = "noaddr" ->
             row(<<TextCell(DateText(d.n)), home,
                   score(StrOf(d.n) \o <<"-">> \o StrOf(d.n), <<>>), away>>)
        [] d.k = "letters" ->
             row(<<TextCell(DateText(d.n)), home,
                   score(<<"W", "-">> \o StrOf(d.n), BoxScoreHref(d.n)), away>>)
        [] d.k = "half" ->
             row(<<TextCell(DateText(d.n)), home,
                   score(StrOf(d.n) \o <<"-">>, BoxScoreHref(d.n)), away>>)
        [] d.k = "versus" ->
             row(<<TextCell(DateText(d.n)), home,
                   score(<<"v", "s">>, BoxScoreHref(d.n)), away>>)
        [] d.k = "fixture" ->
             row(<<TextCell(DateText(d.n)), home, TextCell(<<>>), away>>)
        [] d.k = "later" ->
             row(<<TextCell(DateText(d.n + 1)), home, TextCell(<<"v", "s">>), away>>)
        [] d.k = "last10" ->
             row(<<TextCell(<<"M", "a", "r", " ">> \o StrOf(d.n)), home,
                   score(<<"L", "a", "s", "t", " ", "1", "0", " ", "G", "a", "m", "e", "s">>,
                         <<"/", "t">>), away>>)
        [] d.k = "hyphenhome" ->
             row(<<TextCell(DateText(d.n)),
                   ImgCell(TeamName(d.n) \o <<"-">> \o TeamName(d.n + 1)),
                   TextCell(<<>>), ImgCell(TeamName(d.n + 2))>>)
        [] d.k = "hyphenaway" ->
             row(<<TextCell(DateText(d.n)), ImgCell(TeamName(d.n)), TextCell(<<>>),
                   ImgCell(TeamName(d.n + 1) \o <<"-">> \o TeamName(d.n + 2))>>)
        [] d.k = "round" ->
             row(<<TextCell(RoundText(d.n)), home, TextCell(<<>>), away>>)
        [] d.k = "short" ->
             row(<<TextCell(DateText(d.n)), home, away>>)
        [] OTHER ->
             row(<<TextCell(DateText(d.n)), TextCell(TeamName(d.n)),
                   score(StrOf(d.n) \o <<"-">> \o StrOf(d.n), BoxScoreHref(d.n)),
                   TextCell(TeamName(d.n + 1))>>)

ScheduleDoc(page) ==
  [tables |-> IF page.rows = <<>> THEN <<>>
              ELSE << [i \in 1..Len(page.rows) |-> ScheduleRow(page.rows[i])] >>,
   lines  |-> <<>>,
   stats  |-> [cat \in {stat_categories[i] : i \in 1..Len(stat_categories)} |-> <<>>]]

(***************************************************************************)
(* The pages the remote site may serve.                                    *)
(***************************************************************************)

\* The longest tables of the small pages, and by how many rows the long
\* pages exceed the limits of the extractors.
MaxRows == 2

Excess == 1

\* The number of the game that the rows of the small schedule pages show:
\* its box score is /boxScores/Lebanon/2026/0209_2628_2682.aspx.
GameNo == 2682

SeqsUpTo(S, m) == UNION {[1..k -> S] : k \in 0..m}

NoLeague == [rows |-> <<>>, lines |-> <<>>, links |-> <<>>, cats |-> 0]

\* League pages with a first table of up to MaxRows data rows, team i in
\* row i.
TablePages ==
  {[NoLeague EXCEPT !.rows = [i \in 1..Len(ks) |-> [k |-> ks[i], n |-> i]]] :
     ks \in SeqsUpTo(RowKindsLeague, MaxRows)}

\* League pages whose standings are in the text only: no table, or a table
\* without a usable row.
LineDescs ==
  {[k |-> "entry", n |-> n, w |-> 10 * n] : n \in 1..MaxRows}
  \cup {[k |-> "glued", n |-> 1, w |-> 1], [k |-> "other", n |-> 1, w |-> 1]}

TextPages ==
  {[NoLeague EXCEPT !.rows = rows, !.lines = lines] :
     rows \in {<<>>, <<[k |-> "short", n |-> 1]>>},
     lines \in SeqsUpTo(LineDescs, MaxRows)}

\* League pages with statistics blocks.
StatsPages ==
  {[NoLeague EXCEPT !.links = links, !.cats = cats] :
     links \in SeqsUpTo(LinkKinds, MaxRows) \ {<<>>}, cats \in {4, 5}}

\* Schedule pages with one table of up to MaxRows rows: rows of played
\* games, or rows of games to come.
PlayedRowDescs ==
  {[k |-> k, n |-> GameNo] :
     k \in {"result", "rematch", "bracket", "letters", "half", "versus", "noaddr", "text"}}
  \cup {[k |-> "bracket", n |-> n] : n \in 1..3}

UpcomingRowDescs ==
  {[k |-> k, n |-> GameNo] :
     k \in {"fixture", "later", "last10", "hyphenhome", "hyphenaway", "round", "short"}}

SchedulePages ==
  {[rows |-> rows] :
     rows \in SeqsUpTo(PlayedRowDescs, MaxRows) \cup SeqsUpTo(UpcomingRowDescs, MaxRows)}

\* A league page and a schedule page of a usual shape.
UsualLeague ==
  [rows |-> <<[k |-> "team", n |-> 1], [k |-> "team", n |-> 2],
              [k |-> "game", n |-> 3]>>,
   lines |-> <<>>, links |-> <<"player", "player">>, cats |-> 5]

UsualSchedule ==
  [rows |-> <<[k |-> "result", n |-> GameNo], [k |-> "fixture", n |-> GameNo]>>]

\* Pages longer than every limit: more teams, player links, played games
\* and games to come than the extractors keep.
LongLeague ==
  [rows  |-> [i \in 1..(MaxStandings + Excess) |-> [k |-> "team", n |-> i]],
   lines |-> <<>>,
   links |-> [i \in 1..(MaxLeaders + Excess) |-> "player"],
   cats  |-> 5]

LongSchedule ==
  [rows |-> [i \in 1..(MaxResults + Excess) |-> [k |-> "noaddr", n |-> i]]
            \o [i \in 1..(MaxUpcoming + Excess) |-> [k |-> "fixture", n |-> i]]]

\* A league page whose standings table has a record that is no number.
BrokenLeague == [UsualLeague EXCEPT !.rows = @ \o <<[k |-> "letters", n |-> 4]>>]

\* The sites of the small specification: a page varies while the other
\* is the usual one.
SmallSites ==
  {[league |-> l, schedule |-> UsualSchedule] :
     l \in TablePages \cup TextPages \cup StatsPages}
  \cup {[league |-> UsualLeague, schedule |-> sch] : sch \in SchedulePages}

\* The site with the usual pages.
UsualSite == [league |-> UsualLeague, schedule |-> UsualSchedule]

\* The sites of the other specifications: usual pages, long pages, pages
\* with a standings record that is no number.
Sites ==
  {UsualSite,
   [league |-> LongLeague, schedule |-> LongSchedule],
   [league |-> BrokenLeague, schedule |-> UsualSchedule]}

\* The ids that GET /api/game is asked for: a game id, the keys of games
\* to come, the text None and a text that is no id.
GameIds ==
  {parse_game_id_from_url(BoxScoreHref(GameNo)),
   TeamName(GameNo) \o <<"-">> \o TeamName(GameNo + 1),
   TeamName(GameNo) \o <<"-">> \o TeamName(GameNo + 1) \o <<"-">> \o TeamName(GameNo + 2),
   <<"N", "o", "n", "e">>,
   <<"x">>}

(***************************************************************************)
(* The program: the cache, the refresh cycle, the threads.                 *)
(***************************************************************************)
VARIABLES
  league_data,       \* the global cache (lines 21-33)
  origin,            \* for each cache field, the cycle that assigned it (0: none)
  site,              \* the pages the remote site serves now
  started,           \* how many cycles have begun, counted up to MaxCycles
  pc,                \* where each thread is
  local,             \* the locals of each thread's scrape_league_data call
  success,           \* what each thread's last scrape_league_data call returned
  refresh_response,  \* the response to the last POST /api/refresh
  request,           \* the GET request being served
  response           \* the response to the last GET request, once sent

vars ==
  <<league_data, origin, site, started, pc, local, success,
    refresh_response, request, response>>

\* main: the main thread up to app.run; loop: the auto_refresh thread;
\* post: a thread serving POST /api/refresh; get: a thread serving a GET.
Refreshers == {"main", "loop", "post"}

Threads == Refreshers \cup {"get"}

\* The cache fields, in the order lines 65-69 assign them.
Fields == <<"standings", "results", "upcoming", "stats_leaders", "last_updated">>

FieldSet == {Fields[i] : i \in 1..Len(Fields)}

\* The keys of league_data in the order of the dict (lines 21-33).
DictOrder == <<"upcoming", "results", "standings", "stats_leaders", "last_updated">>

NoLocals == [cycle |-> 0, soup |-> <<>>, schedule_soup |-> <<>>, out |-> <<>>]

\* How many cycles the specifications of several threads follow.
MaxCycles == 3

\* The cycle numbers in use: those a cache field, a thread or a request
\* still refers to.  A cycle takes the least number not in use, so equal
\* numbers always name the same cycle.
Range(f) == {f[x] : x \in DOMAIN f}

InUse ==
  Range(origin) \cup {local[p].cycle : p \in Refreshers}
  \cup (IF refresh_response = <<>> THEN {} ELSE {refresh_response.last_updated})
  \cup (IF request = <<>> THEN {} ELSE Range(request.seen))
  \cup (IF response = <<>> THEN {} ELSE Range(response.seen))

FreshCycle == CHOOSE c \in 1..(Cardinality(InUse) + 1) : c \notin InUse

\* Where a thread calls scrape_league_data, and where it is once the call
\* has returned.
Calling(p) == CASE p = "main" -> "boot" [] p = "loop" -> "loop" [] OTHER -> "call"

Returned(p) == CASE p = "main" -> "booted" [] p = "loop" -> "sleep" [] OTHER -> "respond"

InitProgram ==
  /\ league_data =
       [upcoming |-> <<>>, results |-> <<>>, standings |-> <<>>,
        stats_leaders |-> [cat \in {stat_categories[i] : i \in 1..Len(stat_categories)} |-> <<>>],
        last_updated |-> NoTime]
  /\ origin = [f \in FieldSet |-> 0]
  /\ started = 0
  /\ pc = [t \in Threads |->
             CASE t = "main" -> "boot" [] t = "loop" -> "unstarted" [] OTHER -> "idle"]
  /\ local = [p \in Refreshers |-> NoLocals]
  /\ success = [p \in Refreshers |-> "none"]
  /\ refresh_response = <<>>
  /\ request = <<>>
  /\ response = <<>>

(***************************************************************************)
(* def scrape_league_data(), one action per step that another thread can   *)
(* interleave with.  An exception at any step is caught at line 78: the    *)
(* call returns False from there.                                          *)
(***************************************************************************)

\* The call itself.
BeginCycle(p) ==
  /\ pc[p] = Calling(p)
  /\ local' = [local EXCEPT ![p] = [NoLocals EXCEPT !.cycle = FreshCycle]]
  /\ started' = IF started < MaxCycles THEN started + 1 ELSE started
  /\ pc' = [pc EXCEPT ![p] = "fetch_league"]
  /\ UNCHANGED <<league_data, origin, site, success,
                 refresh_response, request, response>>

\* Lines 49-51: requests.get(LEAGUE_URL) and raise_for_status().  The
\* request succeeds or raises (no connection, a timeout, an error status).
FetchLeague(p) ==
  /\ pc[p] = "fetch_league"
  /\ \/ /\ local' = [local EXCEPT ![p].soup = <<site.league>>]
        /\ pc' = [pc EXCEPT ![p] = "fetch_schedule"]
        /\ UNCHANGED success
     \/ /\ success' = [success EXCEPT ![p] = "False"]
        /\ pc' = [pc EXCEPT ![p] = Returned(p)]
        /\ UNCHANGED local
  /\ UNCHANGED <<league_data, origin, site, started,
                 refresh_response, request, response>>

\* A fetch whose failure stamps the cache all the same.
FetchScheduleStamps(p) ==
  /\ pc[p] = "fetch_schedule"
  /\ \/ /\ local' = [local EXCEPT ![p].schedule_soup = <<site.schedule>>]
        /\ pc' = [pc EXCEPT ![p] = "extract"]
        /\ UNCHANGED <<success, league_data, origin>>
     \/ /\ success' = [success EXCEPT ![p] = "False"]
        /\ pc' = [pc EXCEPT ![p] = Returned(p)]
        /\ league_data' = [league_data EXCEPT !.last_updated = local[p].cycle]
        /\ origin' = [origin EXCEPT !.last_updated = local[p].cycle]
        /\ UNCHANGED local
  /\ UNCHANGED <<site, started, refresh_response, request, response>>

\* Lines 54-56: requests.get(SCHEDULE_URL) and raise_for_status().
FetchSchedule(p) ==
  /\ pc[p] = "fetch_schedule"
  /\ \/ /\ local' = [local EXCEPT ![p].schedule_soup = <<site.schedule>>]
        /\ pc' = [pc EXCEPT ![p] = "extract"]
        /\ UNCHANGED success
     \/ /\ success' = [success EXCEPT ![p] = "False"]
        /\ pc' = [pc EXCEPT ![p] = Returned(p)]
        /\ UNCHANGED local
  /\ UNCHANGED <<league_data, origin, site, started,
                 refresh_response, request, response>>

\* Lines 59-62: the four extractors, on the thread's own documents.
Extracted(soup, schedule_soup) ==
  LET standings == scrape_standings(soup)
  IN  IF standings.ok
      THEN Return([standings |-> standings.val,
                   results |-> scrape_results(soup, schedule_soup),
                   upcoming |-> scrape_upcoming(schedule_soup),
                   stats_leaders |-> scrape_stats(soup)])
      ELSE Raise

\* The same for two pages.  What the extractors return for the pages of
\* LiveSites is computed once.
KnownPages ==
  <<UsualSite, [league |-> BrokenLeague, schedule |-> UsualSchedule]>>

KnownOutputs ==
  <<>> \o [i \in 1..Len(KnownPages) |->
            Extracted(LeagueDoc(KnownPages[i].league),
                      ScheduleDoc(KnownPages[i].schedule))]

ExtractedPages(league, schedule) ==
  LET known == {i \in 1..Len(KnownPages) :
                  KnownPages[i] = [league |-> league, schedule |-> schedule]}
  IN  IF known # {} THEN KnownOutputs[CHOOSE i \in known : TRUE]
      ELSE Extracted(LeagueDoc(league), ScheduleDoc(schedule))

Extract(p) ==
  /\ pc[p] = "extract"
  /\ LET r == ExtractedPages(local[p].soup[1], local[p].schedule_soup[1])
     IN  IF r.ok
         THEN /\ local' = [local EXCEPT ![p].out = <<r.val>>]
              /\ pc' = [pc EXCEPT ![p] = "set_standings"]
              /\ UNCHANGED success
         ELSE /\ success' = [success EXCEPT ![p] = "False"]
              /\ pc' = [pc EXCEPT ![p] = Returned(p)]
              /\ UNCHANGED local
  /\ UNCHANGED <<league_data, origin, site, started,
                 refresh_response, request, response>>

\* Lines 65-68: league_data[field] = <the extractor's list>, one per step.
SetField(p, i) ==
  /\ pc[p] = "set_" \o Fields[i]
  /\ league_data' = [league_data EXCEPT ![Fields[i]] = local[p].out[1][Fields[i]]]
  /\ origin' = [origin EXCEPT ![Fields[i]] = local[p].cycle]
  /\ pc' = [pc EXCEPT ![p] = "set_" \o Fields[i + 1]]
  /\ UNCHANGED <<site, started, local, success,
                 refresh_response, request, response>>

\* Lines 69-76: league_data['last_updated'] = datetime.now().isoformat(),
\* and return True.  The moment of a cycle's line 69 is written as the
\* cycle's number: two cycles never have the same.
SetLastUpdated(p) ==
  /\ pc[p] = "set_last_updated"
  /\ league_data' = [league_data EXCEPT !.last_updated = local[p].cycle]
  /\ origin' = [origin EXCEPT !.last_updated = local[p].cycle]
  /\ success' = [success EXCEPT ![p] = "True"]
  /\ pc' = [pc EXCEPT ![p] = Returned(p)]
  /\ UNCHANGED <<site, started, local, refresh_response, request, response>>

(***************************************************************************)
(* The threads around the cycle.                                           *)
(***************************************************************************)

\* Lines 481-490: the main thread starts auto_refresh and runs the server.
StartThread ==
  /\ pc["main"] = "booted"
  /\ pc' = [pc EXCEPT !["main"] = "serving", !["loop"] = "loop"]
  /\ UNCHANGED <<league_data, origin, site, started, local, success,
                 refresh_response, request, response>>

\* Line 363: time.sleep(300) returns and the loop calls the cycle again.
Wake ==
  /\ pc["loop"] = "sleep"
  /\ pc' = [pc EXCEPT !["loop"] = "loop"]
  /\ UNCHANGED <<league_data, origin, site, started, local, success,
                 refresh_response, request, response>>

\* def force_refresh(): a POST /api/refresh arrives (line 464) ...
PostRequest ==
  /\ pc["main"] = "serving"
  /\ pc["post"] = "idle"
  /\ pc' = [pc EXCEPT !["post"] = "call"]
  /\ UNCHANGED <<league_data, origin, site, started, local, success,
                 refresh_response, request, response>>

\* ... and is answered (lines 465-468).
Respond ==
  /\ pc["post"] = "respond"
  /\ refresh_response' = [success |-> success["post"],
                          last_updated |-> league_data.last_updated]
  /\ pc' = [pc EXCEPT !["post"] = "idle"]
  /\ UNCHANGED <<league_data, origin, site, started, local, success,
                 request, response>>

\* The remote site publishes other pages.
SiteChange(sites) ==
  /\ site' \in sites \ {site}
  /\ UNCHANGED <<league_data, origin, started, pc, local, success,
                 refresh_response, request, response>>

(***************************************************************************)
(* The GET handlers that read the cache (lines 402-437).  A handler reads  *)
(* the keys of league_data one at a time, a refresh cycle of another       *)
(* thread running between two reads: get_all_data in the order of the      *)
(* dict, the other four a list and then last_updated.                      *)
(***************************************************************************)
Endpoints == {"data", "standings", "results", "upcoming", "stats"}

Reads(endpoint) ==
  CASE endpoint = "data" -> DictOrder
    [] endpoint = "stats" -> <<"stats_leaders", "last_updated">>
    [] OTHER -> <<endpoint, "last_updated">>

GetRequest ==
  /\ pc["main"] = "serving"
  /\ pc["get"] = "idle"
  /\ \E e \in Endpoints :
       request' = [endpoint |-> e, body |-> <<>>, seen |-> <<>>]
  /\ response' = <<>>
  /\ pc' = [pc EXCEPT !["get"] = "read"]
  /\ UNCHANGED <<league_data, origin, site, started, local, success,
                 refresh_response>>

\* The next key is read; after the last one the response is sent.  body
\* and seen hold, in reading order, the values read and the cycles that
\* had assigned them.
GetRead ==
  /\ pc["get"] = "read"
  /\ LET keys == Reads(request.endpoint)
         key == keys[Len(request.body) + 1]
         body == Append(request.body, league_data[key])
         seen == Append(request.seen, origin[key])
     IN  IF Len(body) = Len(keys)
         THEN /\ response' = [status |-> 200, endpoint |-> request.endpoint,
                              body |-> body, seen |-> seen]
              /\ request' = <<>>
              /\ pc' = [pc EXCEPT !["get"] = "idle"]
         ELSE /\ request' = [request EXCEPT !.body = body, !.seen = seen]
              /\ UNCHANGED <<response, pc>>
  /\ UNCHANGED <<league_data, origin, site, started, local, success,
                 refresh_response>>

(***************************************************************************)
(* def get_game(game_id) (lines 439-459)                                   *)
(***************************************************************************)

\* game_key = f"{game['homeTeam']}-{game['awayTeam']}"
GameKey(game) == game.homeTeam \o <<"-">> \o game.awayTeam

\* A search that keeps the last game with the id.
RECURSIVE FindLastResult(_, _)
FindLastResult(results, game_id) ==
  IF results = <<>> THEN <<>>
  ELSE LET later == FindLastResult(Tail(results), game_id)
       IN  IF later # <<>> THEN later
           ELSE IF Head(results).gameId = game_id THEN <<Head(results)>>
           ELSE <<>>

\* for game in league_data['results']: the first game with the id, as
\* <<game>>, or <<>>.
RECURSIVE FindResult(_, _)
FindResult(results, game_id) ==
  IF results = <<>> THEN <<>>
  ELSE IF Head(results).gameId = game_id THEN <<Head(results)>>
  ELSE FindResult(Tail(results), game_id)

\* for game in league_data['upcoming']: the first game with the key.
RECURSIVE FindUpcoming(_, _)
FindUpcoming(upcoming, game_id) ==
  IF upcoming = <<>> THEN <<>>
  ELSE IF GameKey(Head(upcoming)) = game_id THEN <<Head(upcoming)>>
  ELSE FindUpcoming(Tail(upcoming), game_id)

GameRequest(ids) ==
  /\ pc["main"] = "serving"
  /\ pc["get"] = "idle"
  /\ \E id \in ids :
       request' = [endpoint |-> "game", id |-> id, body |-> <<>>, seen |-> <<>>]
  /\ response' = <<>>
  /\ pc' = [pc EXCEPT !["get"] = "search_results"]
  /\ UNCHANGED <<league_data, origin, site, started, local, success,
                 refresh_response>>

\* Lines 443-448.
SearchResults ==
  /\ pc["get"] = "search_results"
  /\ LET found == FindResult(league_data.results, request.id)
     IN  IF found # <<>>
         THEN /\ response' = [status |-> 200, endpoint |-> "game", id |-> request.id,
                              body |-> [game |-> found[1], source |-> "results"],
                              seen |-> <<origin.results>>]
              /\ request' = <<>>
              /\ pc' = [pc EXCEPT !["get"] = "idle"]
         ELSE /\ request' = [request EXCEPT !.seen = <<origin.results>>]
              /\ pc' = [pc EXCEPT !["get"] = "search_upcoming"]
              /\ UNCHANGED response
  /\ UNCHANGED <<league_data, origin, site, started, local, success,
                 refresh_response>>

\* Lines 451-459.
SearchUpcoming ==
  /\ pc["get"] = "search_upcoming"
  /\ LET found == FindUpcoming(league_data.upcoming, request.id)
         seen == Append(request.seen, origin.upcoming)
     IN  response' =
           IF found # <<>>
           THEN [status |-> 200, endpoint |-> "game", id |-> request.id,
                 body |-> [game |-> found[1], source |-> "upcoming"], seen |-> seen]
           ELSE [status |-> 404, endpoint |-> "game", id |-> request.id,
                 body |-> [error |-> "Game not found"], seen |-> seen]
  /\ request' = <<>>
  /\ pc' = [pc EXCEPT !["get"] = "idle"]
  /\ UNCHANGED <<league_data, origin, site, started, local, success,
                 refresh_response>>

(***************************************************************************)
(* The specifications.                                                     *)
(***************************************************************************)
\* The steps of thread p inside scrape_league_data.
CycleOf(p) ==
  \/ BeginCycle(p)
  \/ FetchLeague(p)
  \/ FetchSchedule(p)
  \/ Extract(p)
  \/ \E i \in 1..4 : SetField(p, i)
  \/ SetLastUpdated(p)

\* The same while fewer than MaxCycles cycles have begun.
FewCycles(p) == (started < MaxCycles \/ pc[p] # Calling(p)) /\ CycleOf(p)

\* The boot and then the refresh thread, cycle after cycle, the site
\* changing its pages at any time.
Init == InitProgram /\ site \in Sites

Next ==
  \/ CycleOf("main")
  \/ CycleOf("loop")
  \/ StartThread
  \/ Wake
  \/ SiteChange(Sites)

Spec == Init /\ [][Next]_vars

\* The boot and the refresh thread on a site that serves the usual pages
\* at some times and a standings record that is no number at others,
\* where the scheduler runs the threads again and again and the sleep of
\* line 363 ends.
LiveSites == {KnownPages[i] : i \in 1..Len(KnownPages)}

InitLive == InitProgram /\ site \in LiveSites

NextLive ==
  \/ CycleOf("main")
  \/ CycleOf("loop")
  \/ StartThread
  \/ Wake
  \/ SiteChange(LiveSites)

SpecLive ==
  /\ InitLive
  /\ [][NextLive]_vars
  /\ WF_vars(CycleOf("main"))
  /\ WF_vars(StartThread)
  /\ WF_vars(Wake \/ CycleOf("loop"))

\* The refresh thread and POST /api/refresh side by side.
InitRace == InitProgram /\ site = UsualSite

NextRace ==
  \/ \E p \in Refreshers : FewCycles(p)
  \/ StartThread
  \/ Wake
  \/ PostRequest
  \/ Respond

SpecRace == InitRace /\ [][NextRace]_vars

\* The refresh thread and the reading GET handlers side by side.
NextRead ==
  \/ FewCycles("main")
  \/ FewCycles("loop")
  \/ StartThread
  \/ Wake
  \/ GetRequest
  \/ GetRead

SpecRead == InitRace /\ [][NextRead]_vars

\* The program while the refresh thread sleeps: the boot on one of the
\* small sites, then GET /api/game.
InitSmall == InitProgram /\ site \in SmallSites

NextSmall ==
  \/ CycleOf("main")
  \/ StartThread
  \/ GameRequest(GameIds)
  \/ SearchResults
  \/ SearchUpcoming

SpecSmall == InitSmall /\ [][NextSmall]_vars

(***************************************************************************)
(* The properties.                                                         *)
(***************************************************************************)

\* Thread p is inside scrape_league_data.
InCycle(p) ==
  pc[p] \in {"fetch_league", "fetch_schedule", "extract", "set_standings",
             "set_results", "set_upcoming", "set_stats_leaders", "set_last_updated"}

\* Thread p has run a cycle and is not in one.
Finished(p) == local[p].cycle # 0 /\ ~InCycle(p) /\ pc[p] # Calling(p)

\* The latest cycle of p has ended at a fetch that failed.
FetchFailed(p) ==
  Finished(p) /\ (local[p].soup = <<>> \/ local[p].schedule_soup = <<>>)

\* Both fetches of the latest cycle of p succeeded.
Fetched(p) ==
  Finished(p) /\ local[p].soup # <<>> /\ local[p].schedule_soup # <<>>

\* The boot cycle has replaced the cache.
BootSucceeded == pc["main"] \in {"booted", "serving"} /\ success["main"] = "True"

\* C1: a cycle in which a fetch fails assigns no cache field (no step of it
\* up to the failing fetch changes league_data, and no field is marked as
\* assigned by it), it returns False, and POST /api/refresh then answers
\* success false with the last_updated the cache held.
C1_NoField ==
  \A p \in Refreshers :
    FetchFailed(p) =>
      /\ success[p] = "False"
      /\ \A f \in FieldSet : origin[f] # local[p].cycle

C1_Steps ==
  /\ \A p \in Refreshers :
       (pc[p] \in {Calling(p), "fetch_league", "fetch_schedule"} /\ pc'[p] # pc[p])
         => league_data' = league_data
  /\ (FetchFailed("post") /\ pc["post"] = "respond" /\ pc'["post"] = "idle")
       => /\ refresh_response'.success = "False"
          /\ refresh_response'.last_updated = league_data.last_updated
          /\ league_data' = league_data

C1_FetchFailureKeepsCache == []C1_NoField /\ [][C1_Steps]_vars

\* C1's case: POST /api/refresh has answered success false after a failed
\* fetch, the cache still holding the snapshot of an earlier cycle.
C1_Witness ==
  /\ pc["post"] = "idle"
  /\ FetchFailed("post")
  /\ refresh_response # <<>>
  /\ refresh_response.success = "False"
  /\ league_data.last_updated # NoTime
  /\ refresh_response.last_updated = league_data.last_updated
  /\ league_data.standings # <<>>

\* C2: the values a GET handler reads for one response were all assigned
\* by the same cycle (or all are the initial ones).
C2_NoTornRead ==
  response # <<>> =>
    \A i, j \in 1..Len(response.seen) : response.seen[i] = response.seen[j]

\* C3: the response of GET /api/game/{id} is the first cached result with
\* that gameId and source "results"; else the first cached game to come
\* whose "<homeTeam>-<awayTeam>" is the id, with source "upcoming"; else
\* 404 with an error field.  The lookup does not change the cache.
C3_Answer ==
  response # <<>> =>
    LET results == league_data.results
        upcoming == league_data.upcoming
        id == response.id
        inResults == {i \in 1..Len(results) : results[i].gameId = id}
        inUpcoming ==
          {i \in 1..Len(upcoming) :
             upcoming[i].homeTeam \o <<"-">> \o upcoming[i].awayTeam = id}
        first(S) == CHOOSE i \in S : \A j \in S : i <= j
    IN  IF inResults # {}
        THEN /\ response.status = 200
             /\ response.body.source = "results"
             /\ response.body.game = results[first(inResults)]
        ELSE IF inUpcoming # {}
        THEN /\ response.status = 200
             /\ response.body.source = "upcoming"
             /\ response.body.game = upcoming[first(inUpcoming)]
        ELSE /\ response.status = 404
             /\ "error" \in DOMAIN response.body

C3_GameLookup ==
  []C3_Answer /\ [][pc["get"] # "idle" => league_data' = league_data]_vars

\* C3's case: an id that no cached result has, while there are cached
\* results, is answered from the games to come.
C3_Witness ==
  /\ response # <<>>
  /\ response.status = 200
  /\ response.body.source = "upcoming"
  /\ league_data.results # <<>>

\* The ids of the game of /boxScores/Lebanon/2026/0209_2628_2682.aspx: with
\* the first group of the file name, and with the year of the path.
Id0209 == <<"0", "2", "0", "9", "_", "2", "6", "2", "8", "_", "2", "6", "8", "2">>

Id2026 == <<"2", "0", "2", "6", "_", "2", "6", "2", "8", "_", "2", "6", "8", "2">>

\* The addresses without the pattern that the pages hold.
PatternlessHrefs == {OtherHref(n) : n \in {1, 2, 3, GameNo}}

\* C4 (as claimed): the gameId of a result whose box score is
\* /boxScores/Lebanon/2026/0209_2628_2682.aspx is "2026_2628_2682", and a
\* result whose address has no such pattern, or no address, has none.
C4_Original ==
  \A i \in 1..Len(league_data.results) :
    LET game == league_data.results[i]
    IN  /\ game.boxScoreUrl = BASE_URL \o BoxScoreHref(GameNo) => game.gameId = Id2026
        /\ (game.boxScoreUrl = None
            \/ \E h \in PatternlessHrefs : game.boxScoreUrl = BASE_URL \o h)
             => game.gameId = None

\* C4 (amended): that gameId is "0209_2628_2682", the four digits before
\* the file name's first underscore followed by the two ids; a result whose
\* address has no such pattern, or no address, has none, and so has the
\* empty and the absent address.
C4_GameIdOfFileName ==
  /\ parse_game_id_from_url(None) = None
  /\ parse_game_id_from_url(<<>>) = None
  /\ \A i \in 1..Len(league_data.results) :
       LET game == league_data.results[i]
       IN  /\ game.boxScoreUrl = BASE_URL \o BoxScoreHref(GameNo) => game.gameId = Id0209
           /\ (game.boxScoreUrl = None
               \/ \E h \in PatternlessHrefs : game.boxScoreUrl = BASE_URL \o h)
                => game.gameId = None

\* C4's case: the cache holds a result of that box score and a result
\* whose address has no pattern.
C4_Witness ==
  /\ \E i \in 1..Len(league_data.results) :
       /\ league_data.results[i].boxScoreUrl = BASE_URL \o BoxScoreHref(GameNo)
       /\ league_data.results[i].gameId = Id0209
  /\ \E i \in 1..Len(league_data.results) :
       /\ league_data.results[i].boxScoreUrl # None
       /\ league_data.results[i].gameId = None

\* The data rows of the league page's first table.
PageRows ==
  LET soup == LeagueDoc(site.league)
  IN  IF soup.tables = <<>> THEN <<>> ELSE Tail(soup.tables[1])

\* C5: when both fetches of the boot cycle have succeeded the cycle has
\* succeeded and has assigned every cache field, whatever rows the pages
\* hold, and every team row of the standings table is in the standings.
C5_RowsContained ==
  (pc["main"] \in {"booted", "serving"} /\ Fetched("main")) =>
    /\ success["main"] = "True"
    /\ \A f \in FieldSet : origin[f] = local["main"].cycle
    /\ \A i \in 1..Len(site.league.rows) :
         site.league.rows[i].k = "team" =>
           \E k \in 1..Len(league_data.standings) :
             /\ league_data.standings[k].rank = i
             /\ league_data.standings[k].team = TeamName(i)

\* The positions, among the data rows, of the rows with two cells or more.
KeptRows == {i \in 1..Len(PageRows) : Len(PageRows[i].cols) >= 2}

\* The numbers that the first group of the expression matches in the
\* standings lines of the page's text (such a line begins with it).
RECURSIVE LineRanks(_)
LineRanks(lines) ==
  IF lines = <<>> THEN <<>>
  ELSE (IF Head(lines).k = "entry" THEN <<Head(lines).n>> ELSE <<>>)
       \o LineRanks(Tail(lines))

Ranks == [k \in 1..Len(league_data.standings) |-> league_data.standings[k].rank]

Increasing(seq) == \A k \in 1..(Len(seq) - 1) : seq[k] < seq[k + 1]

\* C6 (as claimed): the ranks of the standings are strictly increasing and
\* start at 1.
C6_Original ==
  (BootSucceeded /\ league_data.standings # <<>>) =>
    Ranks[1] = 1 /\ Increasing(Ranks)

\* C6 (amended): a rank from the table is the 1-based position of its row
\* among the data rows, the rows with fewer than two cells counted too, so
\* the ranks are strictly increasing and start at 1 exactly when the first
\* data row has two cells or more; a rank from the text fallback is the
\* number that the first group of the expression matches in its line, in
\* the order of the lines.
C6_RankIsRowPosition ==
  BootSucceeded =>
    IF KeptRows # {}
    THEN /\ Increasing(Ranks)
         /\ {Ranks[k] : k \in 1..Len(Ranks)}
              = {i \in KeptRows : Cardinality({j \in KeptRows : j <= i}) <= 12}
         /\ (Ranks[1] = 1 <=> 1 \in KeptRows)
    ELSE Ranks = SubSeq(LineRanks(site.league.lines), 1, Len(Ranks))
         /\ Len(Ranks) = IF Len(LineRanks(site.league.lines)) < 12
                         THEN Len(LineRanks(site.league.lines)) ELSE 12

\* C6's case: the first data row has one cell and a later row is kept.
C6_Witness ==
  /\ BootSucceeded
  /\ KeptRows # {}
  /\ 1 \notin KeptRows
  /\ Ranks[1] = 2

\* The games to come that the rows of the schedule page show.
PageUpcoming == UpcomingOfRows(AllRows(ScheduleDoc(site.schedule).tables))

Triple(game) == <<game.homeTeam, game.awayTeam, game.date>>

\* C7: no two cached games to come have the same (homeTeam, awayTeam,
\* date), and while the limit of 15 allows, a game of every
\* (homeTeam, awayTeam, date) that the rows show is kept.
C7_DistinctGamesKept ==
  BootSucceeded =>
    LET upcoming == league_data.upcoming
        shown == {Triple(PageUpcoming[i]) : i \in 1..Len(PageUpcoming)}
    IN  /\ \A i, j \in 1..Len(upcoming) :
             Triple(upcoming[i]) = Triple(upcoming[j]) => i = j
        /\ Cardinality(shown) <= 15
             => {Triple(upcoming[i]) : i \in 1..Len(upcoming)} = shown

\* C8: the cache never holds more than 12 standings, 30 results, 15 games
\* to come, or 5 leaders of a category.
C8_SizeBounds ==
  /\ Len(league_data.standings) <= 12
  /\ Len(league_data.results) <= 30
  /\ Len(league_data.upcoming) <= 15
  /\ \A cat \in DOMAIN league_data.stats_leaders :
       Len(league_data.stats_leaders[cat]) <= 5

\* C8's case: every list of the cache is as long as its limit, from pages
\* that show more.
C8_Witness ==
  /\ Len(league_data.standings) = 12
  /\ Len(league_data.results) = 30
  /\ Len(league_data.upcoming) = 15
  /\ \A cat \in DOMAIN league_data.stats_leaders :
       Len(league_data.stats_leaders[cat]) = 5
  /\ \E p \in Refreshers :
       /\ Finished(p)
       /\ local[p].soup = <<LongLeague>>
       /\ local[p].schedule_soup = <<LongSchedule>>
       /\ Len(LongLeague.rows) > 12
       /\ Len(LongSchedule.rows) > 30 + 15

\* A fetch fails.
FetchFails ==
  \E p \in Refreshers :
    pc[p] \in {"fetch_league", "fetch_schedule"} /\ pc'[p] = Returned(p)

\* C9: the refresh thread begins a cycle again and again, and when from
\* some moment on no fetch fails, a cycle of the thread succeeds again and
\* again, replacing the cache.
C9_LoopRecovers ==
  /\ []<>(pc["loop"] = "fetch_league")
  /\ <>[][~FetchFails]_vars
       => []<>(pc["loop"] = "sleep" /\ success["loop"] = "True")

\* C10: when no thread is inside a cycle every cache field has been
\* assigned by the same cycle.
C10_OneCycleWins ==
  (\A p \in Refreshers : ~InCycle(p)) =>
    \A f, g \in FieldSet : origin[f] = origin[g]

====
